---- MODULE Spec2Model ----
(***************************************************************************)
(* Model of machine_code.py: the identifier rewriter (update_storage_file) *)
(* and the backup clean-up (clean_backup_files, delete_all_backups and the *)
(* two GUI handlers on_clean_clicked / on_clean_all_clicked that run the   *)
(* deletion loop).                                                         *)
(*                                                                         *)
(* File names are sequences of one-character strings, so that             *)
(* str.startswith, the slice name[len(prefix):], datetime.strptime and     *)
(* int() are computed on the characters, as the code and its library do.   *)
(* A datetime is a record [ord, sec, us]: proleptic Gregorian ordinal of   *)
(* the day, second of the day, microsecond.                                *)
(*                                                                         *)
(* Spec is the whole program with the programs around it.  Its parts are   *)
(* explored one by one: SpecPlan (the two planners on every directory),    *)
(* SpecClean (the handlers and their deletion loops while files come and   *)
(* go) and SpecStorage (the rewriter of storage.json).                     *)
(***************************************************************************)
EXTENDS Integers, Sequences, FiniteSets, TLC

\* ------------------------------------------------------------------------
\* Bounds of the model
\* ------------------------------------------------------------------------
\* Largest number of entries present in the configuration directory.
MaxFiles == 3

\* ------------------------------------------------------------------------
\* Characters and small helpers
\* ------------------------------------------------------------------------
\* Python's None; every optional value of the model is a record.
None == [none |-> TRUE]

Digits == {"0", "1", "2", "3", "4", "5", "6", "7", "8", "9"}

DigitVal(c) ==
    CASE c = "0" -> 0 [] c = "1" -> 1 [] c = "2" -> 2 [] c = "3" -> 3
      [] c = "4" -> 4 [] c = "5" -> 5 [] c = "6" -> 6 [] c = "7" -> 7
      [] c = "8" -> 8 [] c = "9" -> 9

IsDigits(s) == \A k \in 1..Len(s) : s[k] \in Digits

RECURSIVE NumVal(_)
NumVal(s) ==
    IF s = <<>> THEN 0
    ELSE 10 * NumVal(SubSeq(s, 1, Len(s) - 1)) + DigitVal(s[Len(s)])

\* s.startswith(pre), on the characters
startswith(s, pre) ==
    /\ Len(s) >= Len(pre)
    /\ SubSeq(s, 1, Len(pre)) = pre

Range(s) == {s[k] : k \in 1..Len(s)}

\* ------------------------------------------------------------------------
\* datetime
\* ------------------------------------------------------------------------
IsLeap(y) == (y % 4 = 0) /\ ((y % 100 # 0) \/ (y % 400 = 0))

DaysInMonth(y, m) ==
    CASE m \in {1, 3, 5, 7, 8, 10, 12} -> 31
      [] m \in {4, 6, 9, 11} -> 30
      [] m = 2 -> IF IsLeap(y) THEN 29 ELSE 28

RECURSIVE DaysBeforeMonth(_, _)
DaysBeforeMonth(y, m) ==
    IF m = 1 THEN 0 ELSE DaysBeforeMonth(y, m - 1) + DaysInMonth(y, m - 1)

DaysBeforeYear(y) ==
    (y - 1) * 365 + ((y - 1) \div 4) - ((y - 1) \div 100) + ((y - 1) \div 400)

\* datetime(y, m, d, H, M, S, us): the value, or None where the constructor
\* raises ValueError.
MkDatetime(y, m, d, H, M, S, us) ==
    IF /\ y \in 1..9999
       /\ m \in 1..12
       /\ d \in 1..DaysInMonth(y, m)
       /\ H \in 0..23 /\ M \in 0..59 /\ S \in 0..59
    THEN [ord |-> DaysBeforeYear(y) + DaysBeforeMonth(y, m) + d,
          sec |-> H * 3600 + M * 60 + S,
          us  |-> us]
    ELSE None

\* datetime.max = 9999-12-31 23:59:59.999999
datetime_max == MkDatetime(9999, 12, 31, 23, 59, 59, 999999)

\* a < b on datetimes
DtLess(a, b) ==
    \/ a.ord < b.ord
    \/ a.ord = b.ord /\ a.sec < b.sec
    \/ a.ord = b.ord /\ a.sec = b.sec /\ a.us < b.us

\* now - timedelta(days=days): the datetime, or None where the subtraction
\* raises OverflowError (the result would fall before datetime.min).
SubDays(now, days) ==
    IF now.ord - days < 1 \/ now.ord - days > datetime_max.ord
    THEN None
    ELSE [now EXCEPT !.ord = now.ord - days]

\* ------------------------------------------------------------------------
\* datetime.strptime(ts_str, "%Y%m%d_%H%M%S")
\* ------------------------------------------------------------------------
\* The directive patterns of the library's format regex.
MatchY(s) == Len(s) = 4 /\ IsDigits(s)
MatchM(s) ==
    \/ Len(s) = 2 /\ s[1] = "1" /\ s[2] \in {"0", "1", "2"}
    \/ Len(s) = 2 /\ s[1] = "0" /\ s[2] \in Digits \ {"0"}
    \/ Len(s) = 1 /\ s[1] \in Digits \ {"0"}
MatchD(s) ==
    \/ Len(s) = 2 /\ s[1] = "3" /\ s[2] \in {"0", "1"}
    \/ Len(s) = 2 /\ s[1] \in {"1", "2"} /\ s[2] \in Digits
    \/ Len(s) = 2 /\ s[1] = "0" /\ s[2] \in Digits \ {"0"}
    \/ Len(s) = 1 /\ s[1] \in Digits \ {"0"}
    \/ Len(s) = 2 /\ s[1] = " " /\ s[2] \in Digits \ {"0"}
MatchH(s) ==
    \/ Len(s) = 2 /\ s[1] = "2" /\ s[2] \in {"0", "1", "2", "3"}
    \/ Len(s) = 2 /\ s[1] \in {"0", "1"} /\ s[2] \in Digits
    \/ Len(s) = 1 /\ s[1] \in Digits
MatchMin(s) ==
    \/ Len(s) = 2 /\ s[1] \in {"0", "1", "2", "3", "4", "5"} /\ s[2] \in Digits
    \/ Len(s) = 1 /\ s[1] \in Digits
MatchS(s) ==
    \/ Len(s) = 2 /\ s[1] = "6" /\ s[2] \in {"0", "1"}
    \/ Len(s) = 2 /\ s[1] \in {"0", "1", "2", "3", "4", "5"} /\ s[2] \in Digits
    \/ Len(s) = 1 /\ s[1] \in Digits

\* Field widths <<m, d, H, M, S>> in the order the regex engine tries them:
\* every directive prefers its two-character alternatives, the leftmost
\* directive varying slowest.
WidthAt(k, n) == 2 - (((k - 1) \div n) % 2)

Widths ==
    [k \in 1..32 |->
        <<WidthAt(k, 16), WidthAt(k, 8), WidthAt(k, 4), WidthAt(k, 2),
          WidthAt(k, 1)>>]

\* The fields of a prefix of s cut with widths w (re.match anchors at the
\* start only), or None when s does not match so.
Cut(s, w) ==
    LET pm == 5
        pd == pm + w[1]
        pu == pd + w[2]
        pH == pu + 1
        pM == pH + w[3]
        pS == pM + w[4]
        end == pS + w[5] - 1
    IN  IF Len(s) < end THEN None
        ELSE LET f == [Y   |-> SubSeq(s, 1, 4),
                       m   |-> SubSeq(s, pm, pd - 1),
                       d   |-> SubSeq(s, pd, pu - 1),
                       H   |-> SubSeq(s, pH, pM - 1),
                       Min |-> SubSeq(s, pM, pS - 1),
                       S   |-> SubSeq(s, pS, end),
                       end |-> end]
             IN  IF /\ MatchY(f.Y) /\ MatchM(f.m) /\ MatchD(f.d)
                    /\ s[pu] = "_"
                    /\ MatchH(f.H) /\ MatchMin(f.Min) /\ MatchS(f.S)
                 THEN f ELSE None

\* Value of a matched day field (" 5" is the day 5).
FieldVal(s) == IF s[1] = " " THEN NumVal(Tail(s)) ELSE NumVal(s)

\* The parsed datetime, or None where strptime raises ValueError: no match,
\* unconverted data after the match, or a field out of range for datetime.
strptime(s) ==
    LET hits == {k \in 1..32 : Cut(s, Widths[k]) # None}
    IN  IF hits = {} THEN None
        ELSE LET k == CHOOSE h \in hits : \A g \in hits : h <= g
                 f == Cut(s, Widths[k])
             IN  IF f.end # Len(s) THEN None
                 ELSE MkDatetime(NumVal(f.Y), NumVal(f.m), FieldVal(f.d),
                                 NumVal(f.H), NumVal(f.Min), NumVal(f.S), 0)

\* ------------------------------------------------------------------------
\* Names and paths
\* ------------------------------------------------------------------------
\* os.path.dirname(get_storage_path()) and os.path.basename(get_storage_path())
directory == "globalStorage"
base_name == "storage.json"

\* The names the directory can hold.  A name is a string; Chars gives its
\* characters, on which the string operations of the code are computed.
B_0101  == "storage.json.backup_20240101_000000"
B_0110  == "storage.json.backup_20240110_000000"
B_0601  == "storage.json.backup_20240601_000000"
\* parses to the same instant as B_0101 (one-digit day)
B_tie   == "storage.json.backup_2024011_000000"
\* matches the pattern but is no date
B_feb30 == "storage.json.backup_20240230_000000"
B_old   == "storage.json.backup_old"
B_2023  == "storage.json.backup_20230101_000000"

Chars ==
    "storage.json" :>
        <<"s", "t", "o", "r", "a", "g", "e", ".", "j", "s", "o", "n">> @@
    "storage.json.backup_20240101_000000" :>
        <<"s", "t", "o", "r", "a", "g", "e", ".", "j", "s", "o", "n", ".", "b", "a", "c", "k", "u", "p", "_", "2", "0", "2", "4", "0", "1", "0", "1", "_", "0", "0", "0", "0", "0", "0">> @@
    "storage.json.backup_20240110_000000" :>
        <<"s", "t", "o", "r", "a", "g", "e", ".", "j", "s", "o", "n", ".", "b", "a", "c", "k", "u", "p", "_", "2", "0", "2", "4", "0", "1", "1", "0", "_", "0", "0", "0", "0", "0", "0">> @@
    "storage.json.backup_20240601_000000" :>
        <<"s", "t", "o", "r", "a", "g", "e", ".", "j", "s", "o", "n", ".", "b", "a", "c", "k", "u", "p", "_", "2", "0", "2", "4", "0", "6", "0", "1", "_", "0", "0", "0", "0", "0", "0">> @@
    "storage.json.backup_2024011_000000" :>
        <<"s", "t", "o", "r", "a", "g", "e", ".", "j", "s", "o", "n", ".", "b", "a", "c", "k", "u", "p", "_", "2", "0", "2", "4", "0", "1", "1", "_", "0", "0", "0", "0", "0", "0">> @@
    "storage.json.backup_20240230_000000" :>
        <<"s", "t", "o", "r", "a", "g", "e", ".", "j", "s", "o", "n", ".", "b", "a", "c", "k", "u", "p", "_", "2", "0", "2", "4", "0", "2", "3", "0", "_", "0", "0", "0", "0", "0", "0">> @@
    "storage.json.backup_old" :>
        <<"s", "t", "o", "r", "a", "g", "e", ".", "j", "s", "o", "n", ".", "b", "a", "c", "k", "u", "p", "_", "o", "l", "d">> @@
    "storage.json.backup_20230101_000000" :>
        <<"s", "t", "o", "r", "a", "g", "e", ".", "j", "s", "o", "n", ".", "b", "a", "c", "k", "u", "p", "_", "2", "0", "2", "3", "0", "1", "0", "1", "_", "0", "0", "0", "0", "0", "0">>

\* prefix = base_name + ".backup_"
prefix == Chars[base_name] \o <<".", "b", "a", "c", "k", "u", "p", "_">>

\* os.path.join(directory, name)
Join(d, name) == <<d, name>>
NameOf(path) == path[2]

\* Names the directory can hold as regular files, and as sub-directories.
FileNames == {B_0101, B_0110, B_0601, B_tie, B_feb30, B_old}
DirNames == {B_2023}
Pool == FileNames \cup DirNames

\* The names other programs create and remove while a handler runs.
RaceNames == {B_0101, B_0110, B_old, B_2023}

\* Values datetime.now() returns.
Nows ==
    {MkDatetime(2024, 6, 5, 0, 0, 0, 0),
     MkDatetime(2024, 1, 4, 0, 0, 0, 0),
     MkDatetime(2024, 1, 4, 0, 0, 0, 500000)}

\* Texts of the retention-days entry.
RawDays ==
    {<<"3">>, <<" ", "3", "0", " ">>, <<"-", "5">>, <<"a">>,
     <<"1", "5", "0">>, <<"9", "9", "9", "9", "9", "9">>}

\* ------------------------------------------------------------------------
\* Retention days read from the entry (on_clean_clicked, first lines)
\* ------------------------------------------------------------------------
RECURSIVE lstrip(_)
lstrip(s) == IF s # <<>> /\ Head(s) = " " THEN lstrip(Tail(s)) ELSE s

RECURSIVE rstrip(_)
rstrip(s) ==
    IF s # <<>> /\ s[Len(s)] = " " THEN rstrip(SubSeq(s, 1, Len(s) - 1)) ELSE s

strip(s) == rstrip(lstrip(s))

\* int(s): [val |-> n], or None where int raises ValueError.
int(s) ==
    LET signed == s # <<>> /\ Head(s) \in {"+", "-"}
        body   == IF signed THEN Tail(s) ELSE s
    IN  IF body = <<>> \/ ~IsDigits(body) THEN None
        ELSE [val |-> IF signed /\ Head(s) = "-" THEN 0 - NumVal(body)
                      ELSE NumVal(body)]

\* days as on_clean_clicked passes it on: the entry's number, 3 when the
\* text is no positive integer.
ReadDays(raw_days) ==
    LET v == int(strip(raw_days))
    IN  IF v = None THEN 3 ELSE IF v.val <= 0 THEN 3 ELSE v.val

\* ------------------------------------------------------------------------
\* The directory as the planners see it
\* ------------------------------------------------------------------------
\* Mutant: the path is only tested for existing.
isdir_exists(dirState) == dirState # "missing"

\* dirState: "missing" | "notdir" | "dir"; ents: [Pool -> {"none","file","dir"}];
\* st: the content of storage.json, None when there is no such file.
isdir(dirState) == dirState = "dir"
isfile(ents, st, path) ==
    IF NameOf(path) = base_name THEN st # None
    ELSE ents[NameOf(path)] = "file"

\* The sequences os.listdir may return for a set of names: every order.
RECURSIVE Listings(_)
Listings(names) ==
    IF names = {} THEN {<<>>}
    ELSE UNION {{<<n>> \o l : l \in Listings(names \ {n})} : n \in names}

\* ------------------------------------------------------------------------
\* clean_backup_files
\* ------------------------------------------------------------------------
\* The (full_path, dt) pair appended for a name that passed the two filters.
\* ts_str = name[len(prefix):]
ts_str(name) == SubSeq(Chars[name], Len(prefix) + 1, Len(Chars[name]))

\* strptime on the time stamps of the names of Pool, computed once.
ParsedTime == [n \in Pool |-> strptime(ts_str(n))]

Candidate(name) ==
    [path |-> Join(directory, name), dt |-> ParsedTime[name]]

\* The list `backups` after the listing loop.
RECURSIVE Discover(_, _, _)
Discover(listing, ents, st) ==
    IF listing = <<>> THEN <<>>
    ELSE LET name == Head(listing)
             rest == Discover(Tail(listing), ents, st)
         IN  IF ~startswith(Chars[name], prefix) THEN rest
             ELSE IF ~isfile(ents, st, Join(directory, name)) THEN rest
             ELSE <<Candidate(name)>> \o rest

\* key=lambda x: x[1] or datetime.max
SortKey(b) == IF b.dt = None THEN datetime_max ELSE b.dt

\* sorted(): stable, ascending by key.
RECURSIVE Insert(_, _)
Insert(s, b) ==
    IF s = <<>> THEN <<b>>
    ELSE IF DtLess(SortKey(b), SortKey(s[Len(s)]))
         THEN Append(Insert(SubSeq(s, 1, Len(s) - 1), b), s[Len(s)])
         ELSE Append(s, b)

RECURSIVE sorted(_)
sorted(s) ==
    IF s = <<>> THEN <<>>
    ELSE Insert(sorted(SubSeq(s, 1, Len(s) - 1)), s[Len(s)])

\* Mutant: the list is walked as the directory listed it.
backups_unsorted(backups) == backups

\* The order the deletion loop walks the backups in.
backups_sorted(backups) == sorted(backups)

\* The path kept whatever its age: the last of the sorted list.
newest_path(bs) == bs[Len(bs)].path

\* Mutant: a backup without a time stamp passes the age test.
Selected_untimed(b, newest, cutoff) ==
    /\ b.path # newest
    /\ (b.dt = None \/ DtLess(b.dt, cutoff))

\* Mutant: the age test the wrong way round.
Selected_younger(b, newest, cutoff) ==
    /\ b.path # newest
    /\ b.dt # None
    /\ DtLess(cutoff, b.dt)

\* The three tests of the selection loop.
Selected(b, newest, cutoff) ==
    /\ b.path # newest
    /\ b.dt # None
    /\ DtLess(b.dt, cutoff)

RECURSIVE Paths(_)
Paths(bs) == IF bs = <<>> THEN <<>> ELSE <<Head(bs).path>> \o Paths(Tail(bs))

\* clean_backup_files from `if not backups` on: the result (ok, message,
\* paths), with the list `backups`; msg is the kind of message returned.
Plan(backups, days, now) ==
    IF backups = <<>>
    THEN [ok |-> TRUE, msg |-> "no_backups", to_delete |-> <<>>,
          backups |-> backups]
    ELSE LET bs     == backups_sorted(backups)
             newest == newest_path(bs)
             cutoff == SubDays(now, days)
         IN  IF cutoff = None
             THEN [ok |-> FALSE, msg |-> "exception", to_delete |-> <<>>,
                   backups |-> backups]
             ELSE LET sel == SelectSeq(bs, LAMBDA b : Selected(b, newest, cutoff))
                  IN  IF sel = <<>>
                      THEN [ok |-> TRUE, msg |-> "nothing_eligible",
                            to_delete |-> <<>>, backups |-> backups]
                      ELSE [ok |-> TRUE, msg |-> "plan",
                            to_delete |-> Paths(sel), backups |-> backups]

\* clean_backup_files(days), the directory listed as `listing`.
clean_backup_files(dirState, ents, st, listing, days, now) ==
    IF ~isdir(dirState)
    THEN [ok |-> FALSE, msg |-> "no_directory", to_delete |-> <<>>, backups |-> <<>>]
    ELSE Plan(Discover(listing, ents, st), days, now)

\* ------------------------------------------------------------------------
\* delete_all_backups
\* ------------------------------------------------------------------------
\* Mutant: the entry is not tested for being a regular file.
Listed_any_kind(name, ents, st) == startswith(Chars[name], prefix)

\* The two tests a listed name passes to have its path appended.
Listed(name, ents, st) ==
    startswith(Chars[name], prefix) /\ isfile(ents, st, Join(directory, name))

RECURSIVE AllBackups(_, _, _)
AllBackups(listing, ents, st) ==
    IF listing = <<>> THEN <<>>
    ELSE (IF Listed(Head(listing), ents, st)
          THEN <<Join(directory, Head(listing))>> ELSE <<>>)
         \o AllBackups(Tail(listing), ents, st)

delete_all_backups(dirState, ents, st, listing) ==
    IF ~isdir(dirState)
    THEN [ok |-> FALSE, msg |-> "no_directory", to_delete |-> <<>>, backups |-> <<>>]
    ELSE LET paths == AllBackups(listing, ents, st)
         IN  IF paths = <<>>
             THEN [ok |-> TRUE, msg |-> "no_backups", to_delete |-> <<>>,
                   backups |-> <<>>]
             ELSE [ok |-> TRUE, msg |-> "plan", to_delete |-> paths,
                   backups |-> <<>>]

\* ------------------------------------------------------------------------
\* storage.json and the identifiers
\* ------------------------------------------------------------------------
K_machine == "telemetry.machineId"
K_mac     == "telemetry.macMachineId"
K_dev     == "telemetry.devDeviceId"
K_sqm     == "telemetry.sqmId"
TelemetryKeys == {K_machine, K_mac, K_dev, K_sqm}

\* Values uuid.uuid4() returns.
Uuids == {"u1", "u2"}

\* generate_random_id(): the hex forms of two uuids, concatenated.
generate_random_id(a, b) == <<"hex", a, "hex", b>>
\* generate_uuid(): the canonical string of a uuid.
generate_uuid(u) == <<"str", u>>
\* '{' + str(u).upper() + '}'
sqm_id(u) == <<"{", "STR", u, "}">>

\* Content of storage.json: None when the file is absent, else
\* [kind |-> "garbage"] (no JSON), [kind |-> "array"] (JSON, no object) or
\* [kind |-> "object", data |-> the mapping].
Object(d) == [kind |-> "object", data |-> d]
Empty == [k \in {} |-> <<>>]

\* Documents another program may leave in storage.json.
ExternalDocs ==
    {[kind |-> "garbage"], [kind |-> "array"], Object(Empty),
     Object([k \in {"theme"} |-> <<"dark">>]),
     Object([k \in {"theme", K_machine, K_sqm} |->
                IF k = "theme" THEN <<"light">> ELSE <<"old">>])}

\* Mutant: the document on disk is not read.
LoadData_fresh(storage) == Empty

\* data = json.load(f), {} on ValueError and when the file is absent; None
\* in place of a value the four assignments cannot be made on.
LoadData(storage) ==
    IF storage = None THEN Empty
    ELSE IF storage.kind = "garbage" THEN Empty
    ELSE IF storage.kind = "array" THEN None
    ELSE storage.data

\* The four assignments data[...] = ...
Merge(data, ids) ==
    [k \in DOMAIN data \cup TelemetryKeys |->
        IF k = K_machine THEN ids.machine
        ELSE IF k = K_mac THEN ids.mac
        ELSE IF k = K_dev THEN ids.dev
        ELSE IF k = K_sqm THEN ids.sqm
        ELSE data[k]]

\* update_storage_file(file_path): the directory and the file afterwards,
\* and whether it returned (ok) or raised.
update_storage_file(dirState, storage, ids) ==
    LET dir1 == IF dirState = "missing" THEN "dir" ELSE dirState
        data == LoadData(storage)
    IN  IF dir1 # "dir" \/ data = None
        THEN [ok |-> FALSE, dirState |-> dir1, storage |-> storage]
        ELSE [ok |-> TRUE, dirState |-> dir1,
              storage |-> Object(Merge(data, ids))]

\* read_current_ids(): the three values refresh_ids shows.
Dash == <<"-">>
Dashes == [machineId |-> Dash, macMachineId |-> Dash, devDeviceId |-> Dash]
Get(data, k) == IF k \in DOMAIN data THEN data[k] ELSE Dash
read_current_ids(storage) ==
    IF storage = None THEN [ok |-> FALSE, ids |-> Dashes]
    ELSE IF storage.kind # "object" THEN [ok |-> FALSE, ids |-> Dashes]
    ELSE [ok |-> TRUE,
          ids |-> [machineId    |-> Get(storage.data, K_machine),
                   macMachineId |-> Get(storage.data, K_mac),
                   devDeviceId  |-> Get(storage.data, K_dev)]]

\* ------------------------------------------------------------------------
\* State
\* ------------------------------------------------------------------------
VARIABLES
    dirState,    \* the configuration directory: "missing", "notdir", "dir"
    entries,     \* [Pool -> {"none", "file", "dir"}]: its entries but storage.json
    storage,     \* content of storage.json
    shown,       \* var_machine, var_mac, var_dev
    pc,          \* "idle", "askyesno", "delete" (the loop), "box" (a message box is open)
    handler,     \* the handler running: "none", "run", "clean", "all"
    box,         \* kind of the open message box
    ok,          \* ok of the handler's planner call
    msg,         \* kind of the message the planner returned
    to_delete,   \* the planned paths
    backups,     \* the planner's list `backups`, in listing order
    days,        \* days passed to clean_backup_files
    now,         \* datetime.now() as the planner read it
    removed,     \* paths os.remove succeeded on
    errors,      \* <<path, error>> pairs
    i            \* position of the deletion loop in to_delete

vars == <<dirState, entries, storage, shown, pc, handler, box, ok, msg,
          to_delete, backups, days, now, removed, errors, i>>

fsVars    == <<dirState, entries, storage>>
localVars == <<ok, msg, to_delete, backups, days, now, removed, errors, i>>

Present(ents) == {n \in Pool : ents[n] # "none"}

\* Names os.listdir(directory) returns.
DirNamesNow(ents, st) ==
    Present(ents) \cup (IF st = None THEN {} ELSE {base_name})

NoLocals ==
    /\ ok = FALSE /\ msg = "" /\ to_delete = <<>> /\ backups = <<>>
    /\ days = 0 /\ now = None /\ removed = <<>> /\ errors = <<>> /\ i = 0

\* The state when the window opens: any directory of at most MaxFiles
\* entries, storage.json absent or left by another program, and the
\* identifiers as refresh_ids() read them.
Init ==
    /\ dirState \in {"missing", "notdir", "dir"}
    /\ entries \in [Pool -> {"none", "file", "dir"}]
    /\ \A n \in Pool : entries[n] = "file" => n \in FileNames
    /\ \A n \in Pool : entries[n] = "dir" => n \in DirNames
    /\ Cardinality(Present(entries)) <= MaxFiles
    /\ storage \in ExternalDocs \cup {None}
    /\ dirState # "dir" => Present(entries) = {} /\ storage = None
    /\ shown = read_current_ids(storage).ids
    /\ pc = "idle" /\ handler = "none" /\ box = ""
    /\ NoLocals

\* ------------------------------------------------------------------------
\* Other programs acting on the directory
\* ------------------------------------------------------------------------
ExternalCreate(n) ==
    /\ dirState = "dir"
    /\ entries[n] = "none"
    /\ Cardinality(Present(entries)) < MaxFiles
    /\ entries' = [entries EXCEPT ![n] = IF n \in DirNames THEN "dir" ELSE "file"]
    /\ UNCHANGED <<dirState, storage, shown, pc, handler, box, localVars>>

ExternalRemove(n) ==
    /\ entries[n] # "none"
    /\ entries' = [entries EXCEPT ![n] = "none"]
    /\ UNCHANGED <<dirState, storage, shown, pc, handler, box, localVars>>

ExternalWrite(doc) ==
    /\ dirState = "dir"
    /\ storage # doc
    /\ storage' = doc
    /\ UNCHANGED <<dirState, entries, shown, pc, handler, box, localVars>>

\* ------------------------------------------------------------------------
\* on_run_clicked
\* ------------------------------------------------------------------------
on_run_clicked(a, b, c, d, e, f) ==
    /\ pc = "idle"
    /\ LET ids == [machine |-> generate_random_id(a, b),
                   mac     |-> generate_random_id(c, d),
                   dev     |-> generate_uuid(e),
                   sqm     |-> sqm_id(f)]
           r   == update_storage_file(dirState, storage, ids)
       IN  /\ dirState' = r.dirState
           /\ storage' = r.storage
           /\ ok' = r.ok
           /\ shown' = IF r.ok THEN read_current_ids(r.storage).ids ELSE shown
           /\ box' = IF r.ok THEN "showinfo_reset" ELSE "showerror"
    /\ pc' = "box" /\ handler' = "run"
    /\ UNCHANGED <<entries, msg, to_delete, backups, days, now, removed, errors, i>>

\* ------------------------------------------------------------------------
\* on_clean_clicked and on_clean_all_clicked
\* ------------------------------------------------------------------------
\* What both handlers do with the planner's result r up to the confirmation.
ShowPlan(r) ==
    /\ ok' = r.ok /\ msg' = r.msg /\ to_delete' = r.to_delete
    /\ backups' = r.backups
    /\ removed' = <<>> /\ errors' = <<>> /\ i' = 0
    /\ IF ~r.ok THEN pc' = "box" /\ box' = "showerror"
       ELSE IF r.to_delete = <<>> THEN pc' = "box" /\ box' = "showinfo_nothing"
       ELSE pc' = "askyesno" /\ box' = "askyesno"

on_clean_clicked(raw_days, listing, t) ==
    /\ pc = "idle"
    /\ handler' = "clean"
    /\ days' = ReadDays(raw_days)
    /\ now' = t
    /\ ShowPlan(clean_backup_files(dirState, entries, storage, listing,
                                   ReadDays(raw_days), t))
    /\ UNCHANGED <<fsVars, shown>>

on_clean_all_clicked(listing) ==
    /\ pc = "idle"
    /\ handler' = "all"
    /\ ShowPlan(delete_all_backups(dirState, entries, storage, listing))
    /\ UNCHANGED <<fsVars, shown, days, now>>

\* The user answers the confirmation; on yes the loop starts.
AnswerNo ==
    /\ pc = "askyesno"
    /\ pc' = "idle" /\ handler' = "none" /\ box' = ""
    /\ ok' = FALSE /\ msg' = "" /\ to_delete' = <<>> /\ backups' = <<>>
    /\ days' = 0 /\ now' = None
    /\ UNCHANGED <<fsVars, shown, removed, errors, i>>

\* Mutant: on yes the directory is listed again and every backup found then
\* is taken.
AnswerYes_relist ==
    /\ pc = "askyesno"
    /\ pc' = "delete" /\ box' = "" /\ i' = 1
    /\ \E listing \in Listings(DirNamesNow(entries, storage)) :
          to_delete' = AllBackups(listing, entries, storage)
    /\ UNCHANGED <<fsVars, shown, handler, ok, msg, backups, days, now,
                   removed, errors>>

AnswerYes ==
    /\ pc = "askyesno"
    /\ pc' = "delete" /\ box' = "" /\ i' = 1
    /\ UNCHANGED <<fsVars, shown, handler, ok, msg, to_delete, backups, days,
                   now, removed, errors>>

\* os.remove(path): "ok", or the error it raises.  A regular file can still
\* be refused (denied).
os_remove(ents, path, denied) ==
    IF ents[NameOf(path)] = "none" THEN "ENOENT"
    ELSE IF ents[NameOf(path)] = "dir" THEN "EISDIR"
    ELSE IF denied THEN "EACCES"
    ELSE "ok"

\* Mutant: the first failure ends the loop.
AfterStep_stop(errs) ==
    IF i = Len(to_delete) \/ errs # <<>>
    THEN pc' = "box"
         /\ box' = IF errs # <<>> THEN "showerror_partial" ELSE "showinfo_done"
    ELSE pc' = "delete" /\ box' = box

\* The loop ends after the last path: the handler goes on to its result box.
AfterStep(errs) ==
    IF i = Len(to_delete)
    THEN pc' = "box"
         /\ box' = IF errs # <<>> THEN "showerror_partial" ELSE "showinfo_done"
    ELSE pc' = "delete" /\ box' = box

\* One iteration of `for path in to_delete`.
DeleteStep(denied) ==
    /\ pc = "delete"
    /\ i <= Len(to_delete)
    /\ LET path == to_delete[i]
           res  == os_remove(entries, path, denied)
       IN  IF res = "ok"
           THEN /\ entries' = [entries EXCEPT ![NameOf(path)] = "none"]
                /\ removed' = Append(removed, path)
                /\ errors' = errors
                /\ AfterStep(errors)
           ELSE /\ entries' = entries
                /\ removed' = removed
                /\ errors' = Append(errors, <<path, res>>)
                /\ AfterStep(Append(errors, <<path, res>>))
    /\ i' = i + 1
    /\ UNCHANGED <<dirState, storage, shown, handler, ok, msg, to_delete,
                   backups, days, now>>

\* The user closes the message box; the handler returns.
Dismiss ==
    /\ pc = "box"
    /\ pc' = "idle" /\ handler' = "none" /\ box' = ""
    /\ ok' = FALSE /\ msg' = "" /\ to_delete' = <<>> /\ backups' = <<>>
    /\ days' = 0 /\ now' = None /\ removed' = <<>> /\ errors' = <<>> /\ i' = 0
    /\ UNCHANGED <<fsVars, shown>>

\* ------------------------------------------------------------------------
\* Specifications
\* ------------------------------------------------------------------------
RunClicked ==
    \E a, b, c, d, e, f \in Uuids : on_run_clicked(a, b, c, d, e, f)

CleanClicked ==
    /\ pc = "idle"
    /\ \E raw_days \in RawDays, t \in Nows :
        \E listing \in Listings(DirNamesNow(entries, storage)) :
            on_clean_clicked(raw_days, listing, t)

CleanAllClicked ==
    /\ pc = "idle"
    /\ \E listing \in Listings(DirNamesNow(entries, storage)) :
        on_clean_all_clicked(listing)

Delete == \E denied \in BOOLEAN : DeleteStep(denied)

Create == \E n \in Pool : ExternalCreate(n)
Remove == \E n \in Pool : ExternalRemove(n)
Write  == \E doc \in ExternalDocs \cup {None} : ExternalWrite(doc)

\* The whole program with the programs around it.
Next ==
    \/ RunClicked
    \/ CleanClicked
    \/ CleanAllClicked
    \/ AnswerNo
    \/ AnswerYes
    \/ Delete
    \/ Dismiss
    \/ Create
    \/ Remove
    \/ Write

Spec == Init /\ [][Next]_vars

\* The two planners on every directory of Init, the directory left alone:
\* the user declines every confirmation.
NextPlan ==
    \/ CleanClicked
    \/ CleanAllClicked
    \/ AnswerNo
    \/ Dismiss

SpecPlan == Init /\ [][NextPlan]_vars

\* The clean-up handlers with their deletion loops, other programs creating
\* and removing the RaceNames meanwhile.
InitClean ==
    /\ Init
    /\ Present(entries) \subseteq RaceNames
    /\ storage \in {None, Object(Empty)}

CreateRace == \E n \in RaceNames : ExternalCreate(n)
RemoveRace == \E n \in RaceNames : ExternalRemove(n)

NextClean ==
    \/ CleanClicked
    \/ CleanAllClicked
    \/ AnswerNo
    \/ AnswerYes
    \/ Delete
    \/ Dismiss
    \/ CreateRace
    \/ RemoveRace

SpecClean == InitClean /\ [][NextClean]_vars

\* The identifier rewriter, another program writing storage.json meanwhile.
InitStorage == Init /\ Present(entries) = {}

NextStorage ==
    \/ RunClicked
    \/ Dismiss
    \/ Write

SpecStorage == InitStorage /\ [][NextStorage]_vars

\* ------------------------------------------------------------------------
\* Properties of the planners (SpecPlan: the directory is as the planner
\* listed it)
\* ------------------------------------------------------------------------
PathOf(n) == Join(directory, n)

\* The backups in the directory, and their time stamps.
BackupFiles == {n \in Pool : entries[n] = "file" /\ startswith(Chars[n], prefix)}
Stamp(n) == ParsedTime[n]
Timestamped == {n \in BackupFiles : Stamp(n) # None}
Untimed == BackupFiles \ Timestamped
\* The backups no time-stamped backup is newer than.
MaxStamped ==
    {n \in Timestamped : \A m \in Timestamped : ~DtLess(Stamp(n), Stamp(m))}

CleanPlanned == handler = "clean" /\ pc \in {"askyesno", "box"}
AllPlanned == handler = "all" /\ pc \in {"askyesno", "box"}

\* C1: the plan of clean_backup_files never lists the backup with the
\* maximum parsable time stamp (taken where that backup is unique), whatever
\* its age and whatever unparsable backups lie beside it.
C1_NewestNeverListed ==
    CleanPlanned /\ Cardinality(MaxStamped) = 1 =>
        \A n \in MaxStamped : PathOf(n) \notin Range(to_delete)

\* C2: a backup whose time stamp does not parse is never in the plan of
\* clean_backup_files, and the plan is empty when no backup has a parsable
\* time stamp.
C2_UnparsedNeverListed ==
    CleanPlanned =>
        /\ \A p \in Range(to_delete) : Stamp(NameOf(p)) # None
        /\ Timestamped = {} => to_delete = <<>>

\* Unparsable backups lie beside a time-stamped one that is planned.
C2_Witness ==
    /\ CleanPlanned
    /\ Cardinality(Untimed) >= 2
    /\ to_delete # <<>>

\* C3: the plan of clean_backup_files holds exactly the backups whose time
\* stamp is strictly before now - days and that are not the newest
\* time-stamped backup (one of them where several share the newest stamp).
C3_ExactPlan ==
    CleanPlanned /\ ok =>
        IF Timestamped = {} THEN to_delete = <<>>
        ELSE \E r \in MaxStamped :
                Range(to_delete) =
                    {PathOf(n) : n \in {m \in Timestamped \ {r} :
                                          DtLess(Stamp(m), SubDays(now, days))}}

\* C6: delete_all_backups returns the path of every regular file of the
\* directory whose name starts with the prefix, each once and nothing else:
\* the newest and the unparsable ones too, no directory, no other file.
C6_AllBackupsListed ==
    AllPlanned =>
        /\ Range(to_delete) = {PathOf(n) : n \in BackupFiles}
        /\ Len(to_delete) = Cardinality(BackupFiles)

\* The newest backup and an unparsable one are listed, a directory with the
\* prefix and storage.json are not.
C6_Witness ==
    /\ AllPlanned
    /\ storage # None
    /\ \E n \in DirNames : entries[n] = "dir"
    /\ Untimed # {}
    /\ \E n \in MaxStamped : PathOf(n) \in Range(to_delete)

\* Retention days the monotonicity is checked over.
DaysChecked == {ReadDays(r) : r \in RawDays} \cup {1, 2, 31, 149, 151}

\* C7: with the same backups and the same current time, more retention days
\* plan a subset: every plan for d >= days lies within the plan made, which
\* lies within every plan for d <= days.
C7_Monotone ==
    CleanPlanned =>
        \A d \in DaysChecked :
            /\ d >= days =>
                 Range(Plan(backups, d, now).to_delete) \subseteq Range(to_delete)
            /\ d <= days =>
                 Range(to_delete) \subseteq Range(Plan(backups, d, now).to_delete)

\* A longer retention plans strictly fewer backups, but still some.
C7_Witness ==
    /\ CleanPlanned
    /\ \E d \in DaysChecked :
          /\ d > days
          /\ Plan(backups, d, now).to_delete # <<>>
          /\ Len(Plan(backups, d, now).to_delete) < Len(to_delete)

\* C8: the plan of clean_backup_files is in ascending order of parsed time
\* stamp.
C8_Ascending ==
    CleanPlanned =>
        \A j, k \in 1..Len(to_delete) :
            j < k => /\ Stamp(NameOf(to_delete[j])) # None
                     /\ Stamp(NameOf(to_delete[k])) # None
                     /\ ~DtLess(Stamp(NameOf(to_delete[k])),
                                Stamp(NameOf(to_delete[j])))

\* Two planned backups the directory listed newest first.
C8_Witness ==
    /\ CleanPlanned
    /\ Len(to_delete) >= 2
    /\ \E j, k \in 1..Len(backups) :
          /\ j < k
          /\ backups[j].path = to_delete[2]
          /\ backups[k].path = to_delete[1]
          /\ DtLess(backups[k].dt, backups[j].dt)

\* ------------------------------------------------------------------------
\* Properties of the handlers (SpecClean)
\* ------------------------------------------------------------------------
LoopEnded == pc = "box" /\ box \in {"showerror_partial", "showinfo_done"}
ErrPaths == [k \in 1..Len(errors) |-> errors[k][1]]

\* C4: the deletion loop attempts the planned paths in order, a failure is
\* recorded with its error and the loop goes on; at its end every path has
\* been attempted, and removed and failed partition the attempted paths,
\* each in the order of the plan.
C4_LoopPartition ==
    (pc = "delete" \/ LoopEnded) =>
        LET done == SubSeq(to_delete, 1, i - 1)
        IN  /\ LoopEnded => i - 1 = Len(to_delete)
            /\ Cardinality(Range(to_delete)) = Len(to_delete)
            /\ removed = SelectSeq(done, LAMBDA p : p \in Range(removed))
            /\ ErrPaths = SelectSeq(done, LAMBDA p : p \in Range(ErrPaths))
            /\ Range(removed) \cap Range(ErrPaths) = {}
            /\ Range(removed) \cup Range(ErrPaths) = Range(done)
            /\ \A k \in 1..Len(errors) :
                  errors[k][2] \in {"ENOENT", "EISDIR", "EACCES"}
            /\ LoopEnded => (box = "showerror_partial" <=> errors # <<>>)

\* The loop ended with a failure on a path followed by a removal of a later
\* one.
C4_Witness ==
    /\ LoopEnded
    /\ \E j, k \in 1..Len(to_delete) :
          /\ j < k
          /\ to_delete[j] \in Range(ErrPaths)
          /\ to_delete[k] \in Range(removed)

\* A step of the program, not of another program.
HandlerStep == pc' # pc \/ i' # i \/ handler' # handler

\* C5: the handlers remove a file only in the loop entered by a yes to the
\* confirmation of a successful non-empty plan, and only a path of that
\* plan, which is not computed again after it was shown; every other step
\* of a handler leaves the directory as it is.
C5_OnlyConfirmedPlan ==
    [][/\ pc' = "delete" => pc \in {"askyesno", "delete"}
       /\ pc = "askyesno" /\ pc' = "delete" => ok /\ to_delete # <<>>
       /\ pc \in {"askyesno", "delete"} /\ pc' # "idle" => to_delete' = to_delete
       /\ HandlerStep /\ entries' # entries =>
            /\ pc = "delete"
            /\ \E p \in Range(to_delete) :
                  /\ removed' = Append(removed, p)
                  /\ entries[NameOf(p)] = "file"
                  /\ entries' = [entries EXCEPT ![NameOf(p)] = "none"]
       /\ HandlerStep /\ pc' # "idle" /\ removed' # removed =>
            entries' # entries]_vars

\* Delete-all ran and removed files, and a backup that appeared after the
\* plan was shown is still there.
C5_Witness ==
    /\ handler = "all"
    /\ LoopEnded
    /\ removed # <<>>
    /\ \E n \in FileNames :
          entries[n] = "file" /\ PathOf(n) \notin Range(to_delete)

\* C10: with the configuration directory missing or no directory both
\* planners report failure with an empty list and the handler ends at its
\* error box with nothing removed; with the directory there the only failure
\* of clean_backup_files is the cutoff out of range, never a time stamp
\* that does not parse, and delete_all_backups does not fail.
C10_DirectoryFailure ==
    /\ handler \in {"clean", "all"} /\ dirState # "dir" =>
          ~ok /\ msg = "no_directory"
    /\ handler \in {"clean", "all"} /\ ~ok =>
          /\ to_delete = <<>> /\ removed = <<>>
          /\ pc = "box" /\ box = "showerror"
    /\ handler = "clean" /\ dirState = "dir" /\ ~ok =>
          backups # <<>> /\ SubDays(now, days) = None
    /\ handler = "all" /\ dirState = "dir" => ok

\* The clean-up was asked for with the directory missing.
C10_Witness ==
    /\ handler = "clean"
    /\ dirState = "missing"
    /\ pc = "box" /\ box = "showerror"

\* ------------------------------------------------------------------------
\* Property of the rewriter (SpecStorage)
\* ------------------------------------------------------------------------
OldKeys(st) ==
    IF st = None THEN {}
    ELSE IF st.kind = "object" THEN DOMAIN st.data ELSE {}

\* C9: a call of update_storage_file that returns writes an object with the
\* four telemetry keys set to generated values and every other key of the
\* document read with its value, and no further key: exactly the four keys
\* when the file was absent or no JSON.  A call that raises writes nothing.
C9_FrameOfUpdate ==
    [][handler = "none" /\ handler' = "run" =>
         IF ok'
         THEN /\ storage'.kind = "object"
              /\ DOMAIN storage'.data = OldKeys(storage) \cup TelemetryKeys
              /\ \A k \in OldKeys(storage) \ TelemetryKeys :
                    storage'.data[k] = storage.data[k]
              /\ \E a, b \in Uuids :
                    storage'.data[K_machine] = generate_random_id(a, b)
              /\ \E a, b \in Uuids :
                    storage'.data[K_mac] = generate_random_id(a, b)
              /\ \E u \in Uuids : storage'.data[K_dev] = generate_uuid(u)
              /\ \E u \in Uuids : storage'.data[K_sqm] = sqm_id(u)
         ELSE storage' = storage]_vars

\* The rewriter ran on a document with an old machineId and another key.
C9_Witness ==
    /\ handler = "run" /\ ok
    /\ storage # None
    /\ storage.kind = "object"
    /\ "theme" \in DOMAIN storage.data
    /\ storage.data["theme"] = <<"light">>
    /\ storage.data[K_machine] # <<"old">>
    /\ storage.data[K_sqm] # <<"old">>

====
